---------------------------- MODULE Spec2Model ----------------------------
(***************************************************************************)
(* A model of the ailabwatch extraction engine (scraper-v8.py and the       *)
(* earlier variants it was rewritten from): the region slicer, the weight   *)
(* parser, the score extractor, the toggle-expansion controller, the rubric *)
(* reader and the dataset builder.                                          *)
(*                                                                          *)
(* Text is a sequence of tokens: one-character strings ("0".."9", "%",      *)
(* " ", "\n", ":", letters) and the words of the weight phrases             *)
(* ("Weighted", "of category", "weight").  An optional value (Python None,  *)
(* JavaScript null) is the empty sequence, a present value v is <<v>>.      *)
(***************************************************************************)
EXTENDS Integers, Sequences, FiniteSets, TLC

VARIABLES
    pc,          \* position of the driver: which step runs next
    catPage,     \* the rendered category page (a document tree)
    subcats,     \* parse_category_page's result list
    listing,     \* body text of the top-level listing page
    cat_weights, \* get_category_weights' result
    k,           \* index into CATEGORIES of the category being processed
    out,         \* build_dataset's accumulator
    entPage,     \* the rendered representative-entity page (elements in document order)
    expanded,    \* entPage's disclosure controls: TRUE = EXPANDED, FALSE = COLLAPSED
    si,          \* index into subcats of the subcategory whose rubric is read next
    rubrics,     \* scrape_subcategory_rubrics' result mapping
    trace        \* what the accessor was asked to do, in order (navigations, clicks, waits)

vars == <<pc, catPage, subcats, listing, cat_weights, k, out, entPage, expanded,
          si, rubrics, trace>>

-----------------------------------------------------------------------------
(* Optional values *)

None == <<>>

Some(v) == <<v>>

IsSome(o) == Len(o) = 1

-----------------------------------------------------------------------------
(* Configuration tables *)

CATEGORIES ==
    << <<"risk-assessment", "Risk assessment">>,
       <<"scheming", "Scheming risk prevention">>,
       <<"safety-research", "Boosting safety research">>,
       <<"misuse", "Misuse prevention">>,
       <<"security", "Prep for extreme security">>,
       <<"information-sharing", "Risk info sharing">>,
       <<"planning", "Planning">> >>

COMPANIES == <<"Anthropic", "DeepMind", "OpenAI", "Meta", "xAI", "Microsoft", "DeepSeek">>

COMPANY_SLUG ==
    "Anthropic" :> "anthropic" @@ "DeepMind" :> "deepmind" @@ "OpenAI" :> "openai" @@
    "Meta" :> "meta" @@ "xAI" :> "xai" @@ "Microsoft" :> "microsoft" @@
    "DeepSeek" :> "deepseek"

-----------------------------------------------------------------------------
(* Text: regular expressions and conversions *)

IsDigit(c) == c \in {"0", "1", "2", "3", "4", "5", "6", "7", "8", "9"}

\* \s
IsSpace(c) == c \in {" ", "\n"}

DigitVal(c) ==
    CASE c = "0" -> 0 [] c = "1" -> 1 [] c = "2" -> 2 [] c = "3" -> 3
      [] c = "4" -> 4 [] c = "5" -> 5 [] c = "6" -> 6 [] c = "7" -> 7
      [] c = "8" -> 8 [] c = "9" -> 9

\* parseInt(m[1], 10) / int(m.group(1)) of a non-empty run of digits
RECURSIVE ParseInt(_)
ParseInt(ds) ==
    IF Len(ds) = 0 THEN 0
    ELSE 10 * ParseInt(SubSeq(ds, 1, Len(ds) - 1)) + DigitVal(ds[Len(ds)])

\* the last index of the run of digits that starts at i (greedy \d+)
RECURSIVE DigitRunEnd(_, _)
DigitRunEnd(s, i) ==
    IF i < Len(s) /\ IsDigit(s[i + 1]) THEN DigitRunEnd(s, i + 1) ELSE i

\* the first index >= i that holds no whitespace (greedy \s*); Len(s)+1 at the end
RECURSIVE SkipSpaces(_, _)
SkipSpaces(s, i) ==
    IF i <= Len(s) /\ IsSpace(s[i]) THEN SkipSpaces(s, i + 1) ELSE i

\* str.strip() / String.prototype.trim()
RECURSIVE Strip(_)
Strip(s) ==
    IF Len(s) = 0 THEN s
    ELSE IF IsSpace(s[1]) THEN Strip(Tail(s))
    ELSE IF IsSpace(s[Len(s)]) THEN Strip(SubSeq(s, 1, Len(s) - 1))
    ELSE s

\* /(\d+)\s*%/ matches at position i
PercentAt(s, i) ==
    /\ IsDigit(s[i])
    /\ LET p == SkipSpaces(s, DigitRunEnd(s, i) + 1)
       IN  p <= Len(s) /\ s[p] = "%"

\* MatchPercent with a truthiness test on the parsed value (`parseInt(..) || null`):
\* a percentage that reads 0 is lost
MatchPercentFalsy(text) ==
    LET hits == {i \in 1..Len(text) : PercentAt(text, i)}
    IN  IF hits = {} THEN None
        ELSE LET i == CHOOSE x \in hits : \A y \in hits : x <= y
                 v == ParseInt(SubSeq(text, i, DigitRunEnd(text, i)))
             IN  IF v = 0 THEN None ELSE Some(v)

\* tryNode's body: text.match(percentRe), then parseInt of the first match's group
MatchPercent(text) ==
    LET hits == {i \in 1..Len(text) : PercentAt(text, i)}
    IN  IF hits = {} THEN None
        ELSE LET i == CHOOSE x \in hits : \A y \in hits : x <= y
             IN  Some(ParseInt(SubSeq(text, i, DigitRunEnd(text, i))))

\* /Weighted\s+(\d+)%\s+of category/i matches at position i
WeightedAt(s, i) ==
    /\ s[i] = "Weighted"
    /\ i < Len(s) /\ IsSpace(s[i + 1])
    /\ LET d == SkipSpaces(s, i + 1)
       IN  /\ d <= Len(s) /\ IsDigit(s[d])
           /\ LET e == DigitRunEnd(s, d)
              IN  /\ e + 2 <= Len(s)
                  /\ s[e + 1] = "%"
                  /\ IsSpace(s[e + 2])
                  /\ LET o == SkipSpaces(s, e + 2)
                     IN  o <= Len(s) /\ s[o] = "of category"

\* t.match(/Weighted\s+(\d+)%\s+of category/i), then parseInt of the group
MatchWeighted(t) ==
    LET hits == {i \in 1..Len(t) : WeightedAt(t, i)}
    IN  IF hits = {} THEN None
        ELSE LET i == CHOOSE x \in hits : \A y \in hits : x <= y
                 d == SkipSpaces(t, i + 1)
             IN  Some(ParseInt(SubSeq(t, d, DigitRunEnd(t, d))))

-----------------------------------------------------------------------------
(* The document tree of a category page.                                    *)
(* A page is the sequence of its elements in document order; element i is   *)
(* [parent, tag, cls, href, txt]: parent is the index of its parent element *)
(* (Body for a child of <body>), cls its class name, href its link target   *)
(* as path segments (<<>> when it has none), txt its own text, which        *)
(* precedes its child elements.                                             *)

\* <body>, the parent of the top-level elements
Body == 0

\* the detached <div> that extract_scores_js clones the region into
RegionDiv == 0

\* JavaScript null as an element reference
NullEl == -1

BlockTags == {"H2", "H3", "DIV", "P"}

Min(S) == CHOOSE x \in S : \A y \in S : x <= y

\* the concatenation of f[x] for the indices of S in ascending order
RECURSIVE Concat(_, _)
Concat(S, f) ==
    IF S = {} THEN <<>>
    ELSE LET m == Min(S) IN f[m] \o Concat(S \ {m}, f)

\* the indices of S in ascending order
RECURSIVE Ordered(_)
Ordered(S) ==
    IF S = {} THEN <<>>
    ELSE LET m == Min(S) IN <<m>> \o Ordered(S \ {m})

ChildrenOf(page, p) == {i \in 1..Len(page) : page[i].parent = p}

\* i is a[n inclusive] descendant of a
RECURSIVE InSubtree(_, _, _)
InSubtree(page, i, a) ==
    IF i = a THEN TRUE
    ELSE IF i < 1 THEN FALSE
    ELSE InSubtree(page, page[i].parent, a)

\* Node.textContent: the text of the element and of its descendants, in order
RECURSIVE TextContent(_, _)
TextContent(page, i) ==
    page[i].txt \o
    Concat(ChildrenOf(page, i), [c \in ChildrenOf(page, i) |-> TextContent(page, c)])

\* HTMLElement.innerText: as textContent, with a line break around each block child
RECURSIVE InnerText(_, _)
InnerText(page, i) ==
    page[i].txt \o
    Concat(ChildrenOf(page, i),
           [c \in ChildrenOf(page, i) |->
               IF page[c].tag \in BlockTags
               THEN <<"\n">> \o InnerText(page, c) \o <<"\n">>
               ELSE InnerText(page, c)])

\* Element.nextElementSibling in the live document
NextElementSibling(page, i) ==
    LET later == {j \in (i + 1)..Len(page) : page[j].parent = page[i].parent}
    IN  IF later = {} THEN NullEl ELSE Min(later)

\* CollectRegion walking the document instead of the siblings: it descends into
\* the elements it passes
RECURSIVE CollectRegionDocOrder(_, _)
CollectRegionDocOrder(page, n) ==
    IF n # NullEl /\ page[n].tag # "H2"
    THEN <<n>> \o CollectRegionDocOrder(page, IF n < Len(page) THEN n + 1 ELSE NullEl)
    ELSE <<>>

\* extract_scores_js, step 1: the while loop that collects regionNodes
RECURSIVE CollectRegion(_, _)
CollectRegion(page, n) ==
    IF n # NullEl /\ page[n].tag # "H2"
    THEN <<n>> \o CollectRegion(page, NextElementSibling(page, n))
    ELSE <<>>

\* regionNodes for the heading h2
RegionNodes(page, h2) == CollectRegion(page, NextElementSibling(page, h2))

-----------------------------------------------------------------------------
(* Weight Parser (get_weight_js) *)

\* the lookahead budget of get_weight_js: for (let i=0; i<8 && n; ...)
WeightLookahead == 8

\* WeightScan with the budget off by one: for (let i=0; i<=8 && n; ...)
RECURSIVE WeightScanOffByOne(_, _, _)
WeightScanOffByOne(page, n, i) ==
    IF i <= WeightLookahead /\ n # NullEl
    THEN LET m == MatchWeighted(Strip(InnerText(page, n)))
         IN  IF IsSome(m) THEN m
             ELSE WeightScanOffByOne(page, NextElementSibling(page, n), i + 1)
    ELSE None

\* the for loop of get_weight_js, at sibling n with i siblings already scanned
RECURSIVE WeightScan(_, _, _)
WeightScan(page, n, i) ==
    IF i < WeightLookahead /\ n # NullEl
    THEN LET m == MatchWeighted(Strip(InnerText(page, n)))
         IN  IF IsSome(m) THEN m
             ELSE WeightScan(page, NextElementSibling(page, n), i + 1)
    ELSE None

get_weight_js(page, h2) == WeightScan(page, NextElementSibling(page, h2), 0)

-----------------------------------------------------------------------------
(* Score Extractor (extract_scores_js).  It works on a detached copy of the  *)
(* region: RegionDiv holds the clones of regionNodes as its children, and   *)
(* RegionDiv itself has no parent and no sibling.                            *)

\* the bound of the ancestor climb: for (let i=0; i<6 && container; i++)
ClimbCap == 6

\* the bound of the sibling scan: for (let j=0; j<4 && sib && val == null; ...)
SiblingCap == 4

InSeq(x, s) == \E j \in 1..Len(s) : s[j] = x

\* the elements of the detached copy: the region nodes and their descendants
CloneNodes(page, region) ==
    {i \in 1..Len(page) : \E j \in 1..Len(region) : InSubtree(page, i, region[j])}

\* el.parentElement inside the detached copy
CloneParent(page, region, el) ==
    IF el = RegionDiv THEN NullEl
    ELSE IF InSeq(el, region) THEN RegionDiv
    ELSE page[el].parent

\* CloneNextSibling of a scan that runs on the live nodes of the region: the
\* last node of the region has the next heading as its sibling
LiveNextSibling(page, region, el) ==
    IF el = RegionDiv THEN NullEl ELSE NextElementSibling(page, el)

\* el.nextElementSibling inside the detached copy
CloneNextSibling(page, region, el) ==
    IF el = RegionDiv THEN NullEl
    ELSE LET later == {j \in CloneNodes(page, region) :
                          j > el /\ CloneParent(page, region, j) = CloneParent(page, region, el)}
         IN  IF later = {} THEN NullEl ELSE Min(later)

\* el.textContent inside the detached copy
CloneText(page, region, el) ==
    IF el = RegionDiv
    THEN Concat({region[j] : j \in 1..Len(region)},
                [c \in {region[j] : j \in 1..Len(region)} |-> TextContent(page, c)])
    ELSE TextContent(page, el)

\* the selector a[href*="/cell/<cslug>/<categorySlug>"]
AnchorMatches(node, cslug, categorySlug) ==
    /\ node.tag = "A"
    /\ \E j \in 1..Len(node.href) :
          /\ j + 2 <= Len(node.href)
          /\ node.href[j] = "cell"
          /\ node.href[j + 1] = cslug
          /\ node.href[j + 2] = categorySlug

\* region.querySelectorAll(...): the matching anchors of the copy, in document order
Anchors(page, region, cslug, categorySlug) ==
    Ordered({i \in CloneNodes(page, region) : AnchorMatches(page[i], cslug, categorySlug)})

isCardish(page, el) ==
    /\ el # NullEl
    /\ el # RegionDiv
    /\ page[el].cls \in {"card", "grid", "panel", "tile", "item"}

\* the climb loop, at `container` with i levels already inspected
RECURSIVE ClimbLoop(_, _, _, _)
ClimbLoop(page, region, container, i) ==
    IF i < ClimbCap /\ container # NullEl
    THEN IF isCardish(page, container) THEN container
         ELSE ClimbLoop(page, region, CloneParent(page, region, container), i + 1)
    ELSE container

\* the container scanned for the anchor a; a.closest('a, ...') is a itself
Container(page, region, a) ==
    LET c == ClimbLoop(page, region, a, 0)
    IN  IF c = NullEl THEN a ELSE c

tryNode(page, region, el) ==
    IF el = NullEl THEN None ELSE MatchPercent(CloneText(page, region, el))

\* the sibling scan, at sibling sib with j siblings already scanned
RECURSIVE SiblingScan(_, _, _, _)
SiblingScan(page, region, sib, j) ==
    IF j < SiblingCap /\ sib # NullEl
    THEN LET v == tryNode(page, region, sib)
         IN  IF IsSome(v) THEN v
             ELSE SiblingScan(page, region, CloneNextSibling(page, region, sib), j + 1)
    ELSE None

\* one iteration of `for (const a of anchors)`: the value val holds at its end
AnchorValue(page, region, a) ==
    LET container == Container(page, region, a)
        v1 == tryNode(page, region, container)
        v2 == SiblingScan(page, region, CloneNextSibling(page, region, container), 0)
    IN  IF IsSome(v1) THEN v1
        ELSE IF IsSome(v2) THEN v2
        ELSE tryNode(page, region, a)

\* the loop over the anchors: the first anchor that yields a value ends it
RECURSIVE AnchorsValue(_, _, _)
AnchorsValue(page, region, anchors) ==
    IF Len(anchors) = 0 THEN None
    ELSE LET v == AnchorValue(page, region, anchors[1])
         IN  IF IsSome(v) THEN v ELSE AnchorsValue(page, region, Tail(anchors))

\* extract_scores_js recording only the entities it found a score for
extract_scores_found_only(page, h2, categorySlug) ==
    LET region == RegionNodes(page, h2)
        val(company) == AnchorsValue(page, region,
                            Anchors(page, region, COMPANY_SLUG[company], categorySlug))
    IN  [company \in {c \in DOMAIN COMPANY_SLUG : IsSome(val(c))} |-> val(company)]

\* scores[company] = val, for every key of companySlugMap
extract_scores_js(page, h2, categorySlug) ==
    LET region == RegionNodes(page, h2)
    IN  [company \in DOMAIN COMPANY_SLUG |->
            AnchorsValue(page, region,
                         Anchors(page, region, COMPANY_SLUG[company], categorySlug))]

-----------------------------------------------------------------------------
(* parse_category_page *)

\* page.locator("h2"): every h2 of the document, in document order
Headers(page) == Ordered({i \in 1..Len(page) : page[i].tag = "H2"})

\* (await header.inner_text()).strip()
HeaderName(page, h) == Strip(InnerText(page, h))

\* the record appended for the header h
SubcatOf(page, h, slug) ==
    [name   |-> HeaderName(page, h),
     weight |-> get_weight_js(page, h),
     scores |-> extract_scores_js(page, h, slug)]

\* the loop over the headers, from the i-th on
RECURSIVE ParseFrom(_, _, _, _)
ParseFrom(page, headers, i, slug) ==
    IF i > Len(headers) THEN <<>>
    ELSE IF HeaderName(page, headers[i]) = <<>>
         THEN ParseFrom(page, headers, i + 1, slug)
         ELSE <<SubcatOf(page, headers[i], slug)>> \o ParseFrom(page, headers, i + 1, slug)

parse_category_page(page, slug) == ParseFrom(page, Headers(page), 1, slug)

-----------------------------------------------------------------------------
(* The representative-entity page.                                           *)
(* entPage.els lists the page's elements in document order, each             *)
(* [kind, text, ctl, content]: a heading ("h3"/"h2", with its text), a       *)
(* disclosure control ("toggle", ctl its number) or a rubric node ("rubric": *)
(* a div with the classes text-sm and links, ctl the control that discloses  *)
(* it, NoCtl when it is statically visible).  expanded[c] is the state of    *)
(* control c.  The rubric of a COLLAPSED control is not visible; whether it  *)
(* stays in the document, hidden, or is removed from it is up to the page    *)
(* (entPage.keepsHidden).                                                    *)

\* a rubric node that no control discloses
NoCtl == 0

NoPage == [els |-> <<>>, keepsHidden |-> FALSE]

Lower(c) == CASE c = "A" -> "a" [] c = "B" -> "b" [] c = "X" -> "x" [] OTHER -> c

LowerSeq(t) == [i \in 1..Len(t) |-> Lower(t[i])]

\* has_text=sub: a case-insensitive substring match
Contains(text, sub) ==
    \E i \in 0..(Len(text) - Len(sub)) :
        SubSeq(LowerSeq(text), i + 1, i + Len(sub)) = LowerSeq(sub)

\* title.split(":")[0]
RECURSIVE BeforeColon(_)
BeforeColon(t) ==
    IF Len(t) = 0 \/ t[1] = ":" THEN <<>> ELSE <<t[1]>> \o BeforeColon(Tail(t))

\* page.locator(tag, has_text=text): the matching headings, in document order
HasText(page, tag, text) ==
    Ordered({i \in 1..Len(page.els) :
                page.els[i].kind = tag /\ Contains(page.els[i].text, text)})

\* the header locator once the three lookups are through; <<>> when count() == 0
ResolveHeader(page, title) ==
    LET h3 == HasText(page, "h3", title)
        h2 == HasText(page, "h2", title)
    IN  IF h3 # <<>> THEN h3
        ELSE IF h2 # <<>> THEN h2
        ELSE HasText(page, "h3", Strip(BeforeColon(title)))

\* the element is part of the document
InDom(page, exp, i) ==
    \/ page.els[i].kind # "rubric"
    \/ page.els[i].ctl = NoCtl
    \/ exp[page.els[i].ctl]
    \/ page.keepsHidden

IsVisible(page, exp, i) ==
    \/ page.els[i].kind # "rubric"
    \/ page.els[i].ctl = NoCtl
    \/ exp[page.els[i].ctl]

\* the first element of S, NullEl when there is none
FirstOf(S) == IF S = {} THEN NullEl ELSE Min(S)

\* xpath following::*[button|div|span][contains(., 'Click to show details/rubric')
\* or contains(., 'Click to hide details/rubric')][1], from the header h
ToggleAfter(page, h) ==
    FirstOf({i \in (h + 1)..Len(page.els) : page.els[i].kind = "toggle"})

\* xpath following::*[contains(@class,'text-sm') and contains(@class,'links')][1]
RubricAfter(page, exp, h) ==
    FirstOf({i \in (h + 1)..Len(page.els) :
                page.els[i].kind = "rubric" /\ InDom(page, exp, i)})

\* page.locator("css=div.text-sm.links").first
GlobalDiv(page, exp) ==
    FirstOf({i \in 1..Len(page.els) : page.els[i].kind = "rubric" /\ InDom(page, exp, i)})

\* locator.inner_html()
inner_html(el) == <<"<p>", el.content, "</p>">>

\* locator.inner_text()
inner_text(el) == <<el.content>>

\* Rubric of a reader that keeps the flattened text only
RubricTextOnly(el) == [description |-> Some(inner_text(el)), description_html |-> None]

\* rubrics[title] = {"description": text, "description_html": html}
Rubric(el) == [description |-> Some(inner_text(el)), description_html |-> Some(inner_html(el))]

NoRubric == [description |-> None, description_html |-> None]

\* the try/except of the content read at header h: what is stored for the title
ReadRubric(page, exp, h) ==
    LET r == RubricAfter(page, exp, h)
        g == GlobalDiv(page, exp)
    IN  IF r # NullEl /\ IsVisible(page, exp, r) THEN Rubric(page.els[r])
        ELSE IF g # NullEl THEN Rubric(page.els[g])
        ELSE NoRubric

\* AfterClick on a page of which one section is open at a time: the click that
\* lands flips the control and collapses every other one
AfterClickAccordion(exp, page, toggle, lands) ==
    IF toggle # NullEl /\ lands
    THEN [c \in DOMAIN exp |-> c = page.els[toggle].ctl /\ ~exp[c]]
    ELSE exp

\* the state of the controls after toggle.first.click(): the click flips the
\* control when it lands, and changes nothing when it raises
AfterClick(exp, page, toggle, lands) ==
    IF toggle # NullEl /\ lands
    THEN [exp EXCEPT ![page.els[toggle].ctl] = ~exp[page.els[toggle].ctl]]
    ELSE exp

\* Store that keeps the rubric stored first under a title: rubrics.setdefault(title, rec)
StoreFirst(rubs, title, rec) == rubs @@ (title :> rec)

\* rubrics[title] = rec
Store(rubs, title, rec) == (title :> rec) @@ rubs

-----------------------------------------------------------------------------
(* scrape_subcategory_rubrics, one subcategory per step *)

\* RubricNotFound of a loop that stores nothing for a title whose header is not found
RubricNotFoundSkips ==
    /\ pc = "rubrics"
    /\ si <= Len(subcats)
    /\ ResolveHeader(entPage, subcats[si].name) = <<>>
    /\ si' = si + 1
    /\ UNCHANGED <<pc, catPage, subcats, listing, cat_weights, k, out, entPage,
                   expanded, rubrics, trace>>

\* the loop body for a title whose header is not found: the absent rubric, continue
RubricNotFound ==
    /\ pc = "rubrics"
    /\ si <= Len(subcats)
    /\ ResolveHeader(entPage, subcats[si].name) = <<>>
    /\ rubrics' = Store(rubrics, subcats[si].name, NoRubric)
    /\ si' = si + 1
    /\ UNCHANGED <<pc, catPage, subcats, listing, cat_weights, k, out, entPage,
                   expanded, trace>>

\* the loop body for a title whose header is found: click_near_toggle, then the read
RubricStep ==
    /\ pc = "rubrics"
    /\ si <= Len(subcats)
    /\ ResolveHeader(entPage, subcats[si].name) # <<>>
    /\ LET h      == ResolveHeader(entPage, subcats[si].name)[1]
           toggle == ToggleAfter(entPage, h)
       IN  \E lands \in BOOLEAN :
              /\ expanded' = AfterClick(expanded, entPage, toggle, lands)
              /\ rubrics' = Store(rubrics, subcats[si].name,
                                  ReadRubric(entPage, expanded', h))
              /\ trace' = trace \o
                          (IF toggle # NullEl THEN << <<"click", toggle>> >> ELSE <<>>) \o
                          << <<"wait_for", h>> >>
    /\ si' = si + 1
    /\ UNCHANGED <<pc, catPage, subcats, listing, cat_weights, k, out, entPage>>

\* return rubrics; page3.close()
RubricsReturn ==
    /\ pc = "rubrics"
    /\ si > Len(subcats)
    /\ pc' = "append"
    /\ UNCHANGED <<catPage, subcats, si, listing, cat_weights, k, out, entPage,
                   expanded, rubrics, trace>>

-----------------------------------------------------------------------------
(* Category pages of bounded size *)

\* the largest number of elements of a generated category page
MaxNodes == 4

\* the category whose page is generated: the first of CATEGORIES
PageCat == Min(DOMAIN CATEGORIES)

PageSlug == CATEGORIES[PageCat][1]

Elem(tag, cls, href, txt) == [tag |-> tag, cls |-> cls, href |-> href, txt |-> txt]

\* the elements a generated page is made of
Kinds ==
    { Elem("H2", "", <<>>, <<"A">>),
      Elem("H2", "", <<>>, <<" ">>),
      Elem("DIV", "card", <<>>, <<>>),
      Elem("DIV", "", <<>>, <<"Weighted", " ", "1", "5", "0", "%", " ", "of category">>),
      Elem("A", "", <<"cell", "xai", PageSlug>>, <<"0", "%">>),
      Elem("A", "", <<"cell", "xai", PageSlug>>, <<>>) }

\* the ancestors of element i, i itself and Body included
RECURSIVE Chain(_, _)
Chain(parents, i) ==
    IF i = Body THEN {Body} ELSE {i} \cup Chain(parents, parents[i])

\* the parent sequences of the trees of n elements listed in document order
RECURSIVE Shapes(_)
Shapes(n) ==
    IF n = 0 THEN {<<>>}
    ELSE {Append(p, q) : <<p, q>> \in
             {<<p, q>> \in Shapes(n - 1) \X (0..(n - 1)) : q \in Chain(p, n - 1)}}

MkPage(parents, kinds) ==
    [i \in 1..Len(parents) |->
        [parent |-> parents[i], tag |-> kinds[i].tag, cls |-> kinds[i].cls,
         href |-> kinds[i].href, txt |-> kinds[i].txt]]

\* the shapes of the generated pages, by size
PageShapes == [n \in 1..MaxNodes |-> Shapes(n)]

\* a <div> with no class and no text of its own
PlainDiv == Elem("DIV", "", <<>>, <<>>)

\* the largest number of elements that enclose the link of a nested page
MaxDepth == 5

\* nested pages: a heading, then a link inside d elements nested in one another,
\* the outermost a card or an element with a text of its own that holds a
\* percentage, the others plain
NestedPage(d, outer, link) ==
    MkPage([i \in 1..(d + 2) |-> IF i <= 2 THEN Body ELSE i - 1],
           [i \in 1..(d + 2) |->
               IF i = 1 THEN Elem("H2", "", <<>>, <<"A">>)
               ELSE IF i = d + 2 THEN link
               ELSE IF i = 2 THEN outer
               ELSE PlainDiv])

NestedPages ==
    {NestedPage(d, outer, link) :
        d \in 0..MaxDepth,
        outer \in {Elem("DIV", "card", <<>>, <<>>),
                   Elem("DIV", "", <<>>, <<"Weighted", " ", "1", "5", "0", "%", " ", "of category">>)},
        link \in {Elem("A", "", <<"cell", "xai", PageSlug>>, <<"0", "%">>),
                  Elem("A", "", <<"cell", "xai", PageSlug>>, <<>>)}}

\* the largest number of elements between a heading and the weight phrase of a
\* wide page
MaxGap == 8

\* wide pages: a heading, g plain siblings, then the element with the weight phrase
WidePage(g) ==
    MkPage([i \in 1..(g + 2) |-> Body],
           [i \in 1..(g + 2) |->
               IF i = 1 THEN Elem("H2", "", <<>>, <<"A">>)
               ELSE IF i = g + 2
                    THEN Elem("DIV", "", <<>>, <<"Weighted", " ", "1", "5", "0", "%", " ", "of category">>)
                    ELSE PlainDiv])

WidePages == {WidePage(g) : g \in 0..MaxGap}

-----------------------------------------------------------------------------
(* SpecParse: parse_category_page on every category page of bounded size,   *)
(* one header per step.                                                      *)

InitParse ==
    /\ \/ \E n \in 1..MaxNodes : \E p \in PageShapes[n] : \E ks \in [1..n -> Kinds] :
             catPage = MkPage(p, ks)
       \/ catPage \in NestedPages
       \/ catPage \in WidePages
    /\ pc = "headers"
    /\ si = 1
    /\ subcats = <<>>
    /\ k = PageCat
    /\ listing = <<>>
    /\ cat_weights = <<>>
    /\ out = <<>>
    /\ entPage = NoPage
    /\ expanded = <<>>
    /\ rubrics = <<>>
    /\ trace = <<>>

\* the body of `for i in range(count)` for a header with an empty name
SkipHeader ==
    /\ pc = "headers"
    /\ si <= Len(Headers(catPage))
    /\ HeaderName(catPage, Headers(catPage)[si]) = <<>>
    /\ si' = si + 1
    /\ UNCHANGED <<pc, catPage, subcats, listing, cat_weights, k, out, entPage,
                   expanded, rubrics, trace>>

\* the body of `for i in range(count)` for a named header
ParseHeader ==
    /\ pc = "headers"
    /\ si <= Len(Headers(catPage))
    /\ HeaderName(catPage, Headers(catPage)[si]) # <<>>
    /\ subcats' = Append(subcats, SubcatOf(catPage, Headers(catPage)[si], CATEGORIES[k][1]))
    /\ si' = si + 1
    /\ UNCHANGED <<pc, catPage, listing, cat_weights, k, out, entPage, expanded,
                   rubrics, trace>>

\* return subcats
ParseReturn ==
    /\ pc = "headers"
    /\ si > Len(Headers(catPage))
    /\ pc' = "open_ent"
    /\ UNCHANGED <<catPage, subcats, si, listing, cat_weights, k, out, entPage,
                   expanded, rubrics, trace>>

NextParse == SkipHeader \/ ParseHeader \/ ParseReturn

SpecParse == InitParse /\ [][NextParse]_vars

-----------------------------------------------------------------------------
(* get_category_weights.  The listing's body text is a token sequence; a     *)
(* category title is one token, and the window of the pattern is counted in  *)
(* characters.                                                               *)

\* the window of the pattern: .{0,300}?
WeightWindow == 300

\* the length of the filler token, a run of characters longer than the window
FillerLen == WeightWindow + 1

CategoryTitles == {CATEGORIES[i][2] : i \in 1..Len(CATEGORIES)}

\* len() of a token
TokLen(tok) ==
    CASE tok = "Risk assessment"          -> 15
      [] tok = "Scheming risk prevention" -> 24
      [] tok = "Boosting safety research" -> 24
      [] tok = "Misuse prevention"        -> 17
      [] tok = "Prep for extreme security" -> 25
      [] tok = "Risk info sharing"        -> 17
      [] tok = "Planning"                 -> 8
      [] tok = "weight"                   -> 6
      [] tok = "<filler>"                 -> FillerLen
      [] OTHER                            -> 1

\* the number of characters of text[a..b]
RECURSIVE CharLen(_, _, _)
CharLen(text, a, b) ==
    IF a > b THEN 0 ELSE TokLen(text[a]) + CharLen(text, a + 1, b)

\* (\d+)\s*%\s*weight matches at position j
PercentWeightAt(text, j) ==
    /\ IsDigit(text[j])
    /\ LET p == SkipSpaces(text, DigitRunEnd(text, j) + 1)
       IN  /\ p <= Len(text) /\ text[p] = "%"
           /\ LET q == SkipSpaces(text, p + 1)
              IN  q <= Len(text) /\ text[q] = "weight"

\* the positions at which the group can start for the title at position i
GroupStarts(text, i) ==
    {j \in (i + 1)..Len(text) :
        PercentWeightAt(text, j) /\ CharLen(text, i + 1, j - 1) <= WeightWindow}

\* re.search(re.escape(title) + r".{0,300}?(\d+)\s*%\s*weight", body_text): the
\* leftmost title that a match starts at, then the shortest gap
SearchWeight(text, title) ==
    LET starts == {i \in 1..Len(text) : text[i] = title /\ GroupStarts(text, i) # {}}
    IN  IF starts = {} THEN None
        ELSE LET j == Min(GroupStarts(text, Min(starts)))
             IN  Some(ParseInt(SubSeq(text, j, DigitRunEnd(text, j))))

get_category_weights(body_text) ==
    [title \in CategoryTitles |-> SearchWeight(body_text, title)]

-----------------------------------------------------------------------------
(* build_dataset *)

\* the accumulator filled from the front
OutPrepend(acc, rec) == <<rec>> \o acc

\* out.append(...) that also retries the absent rubrics of the records appended
\* before: a subcategory of the same name that now has a description hands it on
OutAppendBackfill(acc, rec) ==
    LET found(name) == {j \in 1..Len(rec.subcategories) :
                           /\ rec.subcategories[j].name = name
                           /\ rec.subcategories[j].description # None}
        fill(sc) == IF sc.description = None /\ found(sc.name) # {}
                    THEN [sc EXCEPT
                            !.description = rec.subcategories[Min(found(sc.name))].description,
                            !.description_html =
                                rec.subcategories[Min(found(sc.name))].description_html]
                    ELSE sc
    IN  Append([i \in 1..Len(acc) |->
                   [acc[i] EXCEPT !.subcategories =
                       [j \in 1..Len(acc[i].subcategories) |-> fill(acc[i].subcategories[j])]]],
               rec)

\* out.append(...)
OutAppend(acc, rec) == Append(acc, rec)

\* rubrics.get(name, {}).get(field)
RubricGet(rubs, name, field) ==
    IF name \in DOMAIN rubs THEN rubs[name][field] ELSE None

\* SubcategoryRecord looking the rubric up under the short label of the name
SubcategoryRecordByLabel(sc, rubs) ==
    [name             |-> sc.name,
     weight           |-> sc.weight,
     description      |-> RubricGet(rubs, Strip(BeforeColon(sc.name)), "description"),
     description_html |-> RubricGet(rubs, Strip(BeforeColon(sc.name)), "description_html"),
     scores           |-> sc.scores]

\* the record of one subcategory in the output
SubcategoryRecord(sc, rubs) ==
    [name             |-> sc.name,
     weight           |-> sc.weight,
     description      |-> RubricGet(rubs, sc.name, "description"),
     description_html |-> RubricGet(rubs, sc.name, "description_html"),
     scores           |-> sc.scores]

\* the record of one category in the output
CategoryRecord(title, weights, scs, rubs) ==
    [category      |-> title,
     weight        |-> IF title \in DOMAIN weights THEN weights[title] ELSE None,
     subcategories |-> [j \in 1..Len(scs) |-> SubcategoryRecord(scs[j], rubs)]]

\* the listing pages the site may serve
Listings ==
    { <<>>,
      <<"Risk assessment", "\n", "2", "0", " ", "%", " ", "weight", "\n",
        "Scheming risk prevention", "\n", "2", "5", "0", "%", " ", "weight", "\n",
        "Planning", "<filler>", "5", "%", " ", "weight">>,
      <<"Risk assessment", "\n",
        "Scheming risk prevention", "\n", "2", "5", "%", " ", "weight">> }

\* the category pages the site may serve for a category; the page of the first
\* category may hold two headings of the same name
SiteCatPages(slug) ==
    { <<>>,
      MkPage(<<0, 0, 0, 0, 3>>,
             << Elem("H2", "", <<>>, <<" ">>),
                Elem("H2", "", <<>>, <<"A">>),
                Elem("DIV", "card", <<>>, <<"Weighted", " ", "6", "0", "%", " ", "of category">>),
                Elem("H2", "", <<>>, <<"B", ":", " ", "x">>),
                Elem("A", "", <<"cell", "xai", slug>>, <<"7", "0", "%">>) >>) }
    \cup
    (IF slug = PageSlug
     THEN { MkPage(<<0, 0, 0, 0>>,
                   << Elem("H2", "", <<>>, <<"A">>),
                      Elem("H2", "", <<>>, <<" ">>),
                      Elem("H2", "", <<>>, <<"A">>),
                      Elem("A", "", <<"cell", "xai", slug>>, <<"7", "0", "%">>) >>) }
     ELSE {})

\* the representative-entity page of the site: the section of "A", collapsed
SiteEntPage ==
    [els |-> << [kind |-> "h3", text |-> <<"A">>, ctl |-> NoCtl, content |-> ""],
                [kind |-> "toggle", text |-> <<>>, ctl |-> 1, content |-> ""],
                [kind |-> "rubric", text |-> <<>>, ctl |-> 1, content |-> "desc-A"] >>,
     keepsHidden |-> FALSE]

\* the representative-entity pages the site may serve
SiteEntPages == {SiteEntPage}

\* the state of the controls of a freshly loaded entity page
FreshControls(page) ==
    [c \in {page.els[i].ctl : i \in 1..Len(page.els)} \ {NoCtl} |-> FALSE]

Init ==
    /\ pc = "weights"
    /\ k = 0
    /\ out = <<>>
    /\ cat_weights = <<>>
    /\ listing = <<>>
    /\ catPage = <<>>
    /\ subcats = <<>>
    /\ si = 1
    /\ entPage = NoPage
    /\ expanded = <<>>
    /\ rubrics = <<>>
    /\ trace = <<>>

\* cat_weights = await get_category_weights(page1)
GetCategoryWeights ==
    /\ pc = "weights"
    /\ \E text \in Listings :
          /\ listing' = text
          /\ cat_weights' = get_category_weights(text)
    /\ trace' = Append(trace, <<"goto", <<"categories">> >>)
    /\ k' = 1
    /\ pc' = "open_cat"
    /\ UNCHANGED <<catPage, subcats, out, entPage, expanded, si, rubrics>>

\* NavigationFails of a driver that tries a failed navigation again
NavigationRetries ==
    /\ pc \in {"weights", "open_cat", "open_ent"}
    /\ trace' = Append(trace,
                  <<"goto", CASE pc = "weights"  -> <<"categories">>
                              [] pc = "open_cat" -> <<"categories", CATEGORIES[k][1]>>
                              [] pc = "open_ent" -> <<"cell", "xai", CATEGORIES[k][1]>> >>)
    /\ UNCHANGED <<pc, catPage, subcats, listing, cat_weights, k, out, entPage, expanded,
                   si, rubrics>>

\* page.goto raises: nothing in build_dataset catches it, the run ends with the error
NavigationFails ==
    /\ pc \in {"weights", "open_cat", "open_ent"}
    /\ trace' = Append(trace,
                  <<"goto", CASE pc = "weights"  -> <<"categories">>
                              [] pc = "open_cat" -> <<"categories", CATEGORIES[k][1]>>
                              [] pc = "open_ent" -> <<"cell", "xai", CATEGORIES[k][1]>> >>)
    /\ pc' = "aborted"
    /\ UNCHANGED <<catPage, subcats, listing, cat_weights, k, out, entPage, expanded,
                   si, rubrics>>

\* OpenCategoryPage of a loop that fetches the listing again for every category
OpenCategoryPageWithListing ==
    /\ pc = "open_cat"
    /\ k <= Len(CATEGORIES)
    /\ catPage' \in SiteCatPages(CATEGORIES[k][1])
    /\ subcats' = <<>>
    /\ si' = 1
    /\ trace' = trace \o << <<"goto", <<"categories">> >>,
                             <<"goto", <<"categories", CATEGORIES[k][1]>> >> >>
    /\ pc' = "headers"
    /\ UNCHANGED <<listing, cat_weights, k, out, entPage, expanded, rubrics>>

\* page2 = new_page(); parse_category_page's goto and wait
OpenCategoryPage ==
    /\ pc = "open_cat"
    /\ k <= Len(CATEGORIES)
    /\ catPage' \in SiteCatPages(CATEGORIES[k][1])
    /\ subcats' = <<>>
    /\ si' = 1
    /\ trace' = Append(trace, <<"goto", <<"categories", CATEGORIES[k][1]>> >>)
    /\ pc' = "headers"
    /\ UNCHANGED <<listing, cat_weights, k, out, entPage, expanded, rubrics>>

\* page3 = new_page(); scrape_subcategory_rubrics' goto and wait
OpenEntityPage ==
    /\ pc = "open_ent"
    /\ \E page \in SiteEntPages :
          /\ entPage' = page
          /\ expanded' = FreshControls(page)
    /\ rubrics' = <<>>
    /\ si' = 1
    /\ trace' = Append(trace, <<"goto", <<"cell", "xai", CATEGORIES[k][1]>> >>)
    /\ pc' = "rubrics"
    /\ UNCHANGED <<catPage, subcats, listing, cat_weights, k, out>>

\* out.append({...}), then the next category
AppendCategory ==
    /\ pc = "append"
    /\ out' = OutAppend(out, CategoryRecord(CATEGORIES[k][2], cat_weights, subcats, rubrics))
    /\ k' = k + 1
    /\ pc' = IF k < Len(CATEGORIES) THEN "open_cat" ELSE "close"
    /\ UNCHANGED <<catPage, subcats, listing, cat_weights, entPage, expanded, si,
                   rubrics, trace>>

\* context.close(); browser.close(); return out
Return ==
    /\ pc = "close"
    /\ pc' = "done"
    /\ UNCHANGED <<catPage, subcats, listing, cat_weights, k, out, entPage, expanded,
                   si, rubrics, trace>>

Next ==
    \/ GetCategoryWeights
    \/ NavigationFails
    \/ OpenCategoryPage
    \/ SkipHeader
    \/ ParseHeader
    \/ ParseReturn
    \/ OpenEntityPage
    \/ RubricNotFound
    \/ RubricStep
    \/ RubricsReturn
    \/ AppendCategory
    \/ Return

Spec == Init /\ [][Next]_vars

-----------------------------------------------------------------------------
(* SpecRubric: scrape_subcategory_rubrics and the assembly of one category   *)
(* record, on every representative-entity page of bounded size and every     *)
(* list of subcategories of bounded length.  A page is a sequence of         *)
(* sections: a heading, then nothing ("bare"), a statically visible rubric   *)
(* ("static"), or a disclosure control with its rubric ("collapsed",         *)
(* "expanded").                                                              *)

\* the largest number of sections of a generated entity page
MaxSections == 2

\* the largest number of subcategories handed to scrape_subcategory_rubrics
MaxSubcats == 2

Titles == { <<"A">>, <<"B", ":", " ", "x">> }

Headings ==
    { [kind |-> "h3", text |-> <<"A">>], [kind |-> "h2", text |-> <<"A">>],
      [kind |-> "h3", text |-> <<"B">>], [kind |-> "h2", text |-> <<"B">>] }

Variants == {"bare", "static", "collapsed", "expanded"}

Descs == <<"desc-1", "desc-2", "desc-3", "desc-4">>

SectionEls(hd, v, s) ==
    << [kind |-> hd.kind, text |-> hd.text, ctl |-> NoCtl, content |-> ""] >> \o
    (IF v \in {"collapsed", "expanded"}
     THEN << [kind |-> "toggle", text |-> <<>>, ctl |-> s, content |-> ""] >>
     ELSE <<>>) \o
    (IF v # "bare"
     THEN << [kind |-> "rubric", text |-> <<>>,
              ctl |-> IF v = "static" THEN NoCtl ELSE s, content |-> Descs[s]] >>
     ELSE <<>>)

RECURSIVE SectionsEls(_, _)
SectionsEls(secs, s) ==
    IF s > Len(secs) THEN <<>>
    ELSE SectionEls(secs[s][1], secs[s][2], s) \o SectionsEls(secs, s + 1)

\* a subcategory as parse_category_page returns it, the j-th of its list
SubcatStub(name, j) ==
    [name   |-> name,
     weight |-> IF j = 1 THEN Some(60) ELSE Some(40),
     scores |-> [c \in DOMAIN COMPANY_SLUG |->
                    IF c = "xAI" THEN Some(70 + j) ELSE None]]

\* the start of scrape_subcategory_rubrics on a page made of the headings and
\* the variants, and a list of subcategories
InitPages(headings, variants, hiddens) ==
    /\ \E n \in 0..MaxSections : \E secs \in [1..n -> headings \X variants] :
       \E hidden \in hiddens :
          /\ entPage = [els |-> SectionsEls(secs, 1), keepsHidden |-> hidden]
          /\ expanded = [s \in 1..n |-> secs[s][2] = "expanded"]
    /\ \E m \in 1..MaxSubcats : \E names \in [1..m -> Titles] :
          subcats = [j \in 1..m |-> SubcatStub(names[j], j)]
    /\ pc = "rubrics"
    /\ si = 1
    /\ rubrics = <<>>
    /\ k = PageCat
    /\ listing = <<>>
    /\ cat_weights = get_category_weights(<<>>)
    /\ out = <<>>
    /\ catPage = <<>>
    /\ trace = <<>>

InitRubric == InitPages(Headings, Variants, BOOLEAN)

NextRubric == RubricNotFound \/ RubricStep \/ RubricsReturn \/ AppendCategory

SpecRubric == InitRubric /\ [][NextRubric]_vars

-----------------------------------------------------------------------------
(* SpecResolve: heading resolution on pages whose rubrics are statically     *)
(* visible, with a heading that holds a title inside a longer text.          *)

LongHeadings == Headings \cup { [kind |-> "h3", text |-> <<"A", ":", " ", "y">>] }

InitResolve == InitPages(LongHeadings, {"bare", "static"}, {FALSE})

SpecResolve == InitResolve /\ [][NextRubric]_vars

-----------------------------------------------------------------------------
(* Properties of parse_category_page, checked under SpecParse *)

\* the headers that got a record, in document order: subcats[j] is NamedHeaders[j]'s
NamedHeaders(page) ==
    Ordered({i \in 1..Len(page) : page[i].tag = "H2" /\ Strip(InnerText(page, i)) # <<>>})

\* the element siblings of h strictly after h and before its next sibling H2
SiblingsBetween(page, h) ==
    {s \in 1..Len(page) :
        /\ s > h
        /\ page[s].parent = page[h].parent
        /\ \A t \in (h + 1)..s : page[t].parent = page[h].parent => page[t].tag # "H2"}

\* the flattened text of h's region
RegionText(page, h) ==
    Concat(SiblingsBetween(page, h),
           [c \in SiblingsBetween(page, h) |-> TextContent(page, c)])

\* the value of the percentage that the text holds at position i
PercentValueAt(text, i) == ParseInt(SubSeq(text, i, DigitRunEnd(text, i)))

\* C4: every score of every subcategory record is null or an integer in 0..100
C4_ScoreInRange ==
    \A j \in 1..Len(subcats) : \A c \in DOMAIN subcats[j].scores :
        LET v == subcats[j].scores[c]
        IN  v = None \/ (IsSome(v) /\ v[1] \in 0..100)

\* C5: null and 0 stay distinct in the list parse_category_page returns.  A
\* score of 0 comes only from a percentage
\* text that reads 0; an entity with no matching link, or in a region that
\* holds no percentage, gets null; and an entity whose link holds "0%", in a
\* region whose percentages all read 0, gets the integer 0.
C5_UnknownIsNotZero ==
    pc = "open_ent" => \A j \in 1..Len(subcats) :
        LET h    == NamedHeaders(catPage)[j]
            sibs == SiblingsBetween(catPage, h)
            text == RegionText(catPage, h)
            hits == {i \in 1..Len(text) : PercentAt(text, i)}
            allZero == \A i \in hits : PercentValueAt(text, i) = 0
            inRegion == {a \in 1..Len(catPage) : \E s \in sibs : InSubtree(catPage, a, s)}
        IN  \A c \in DOMAIN COMPANY_SLUG :
              LET links == {a \in inRegion :
                              AnchorMatches(catPage[a], COMPANY_SLUG[c], CATEGORIES[k][1])}
                  v     == subcats[j].scores[c]
              IN  /\ v = Some(0) => \E i \in hits : PercentValueAt(text, i) = 0
                  /\ (links = {} \/ hits = {}) => v = None
                  /\ ( /\ \E a \in links : \E i \in 1..Len(TextContent(catPage, a)) :
                              PercentAt(TextContent(catPage, a), i)
                       /\ allZero ) => v = Some(0)

\* C5's case: one record holds a score of 0 for one entity and null for another,
\* in a region that holds a percentage
C5_Witness ==
    pc = "open_ent" /\ \E j \in 1..Len(subcats) :
        /\ subcats[j].scores["xAI"] = Some(0)
        /\ subcats[j].scores["OpenAI"] = None
        /\ \E a \in 1..Len(catPage) :
              /\ \E s \in SiblingsBetween(catPage, NamedHeaders(catPage)[j]) :
                    InSubtree(catPage, a, s)
              /\ AnchorMatches(catPage[a], "xai", CATEGORIES[k][1])
              /\ \E i \in 1..Len(TextContent(catPage, a)) :
                    /\ PercentAt(TextContent(catPage, a), i)
                    /\ PercentValueAt(TextContent(catPage, a), i) = 0

\* C6: every subcategory weight is null or an integer in 0..100
C6_WeightInRange ==
    \A j \in 1..Len(subcats) :
        LET w == subcats[j].weight
        IN  w = None \/ (IsSome(w) /\ w[1] \in 0..100)

\* C7: the scores mapping of every record returned has exactly the configured entity
\* names as its keys, found or not
C7_ScoreKeysFixed ==
    pc = "open_ent" => \A j \in 1..Len(subcats) :
        /\ DOMAIN subcats[j].scores = {COMPANIES[i] : i \in 1..Len(COMPANIES)}
        /\ Cardinality(DOMAIN subcats[j].scores) = Len(COMPANIES)

\* C7's case: a record in which one entity was found and another was not
C7_Witness ==
    pc = "open_ent" /\ \E j \in 1..Len(subcats) :
        /\ IsSome(subcats[j].scores["xAI"])
        /\ subcats[j].scores["DeepSeek"] = None
        /\ "DeepSeek" \in DOMAIN subcats[j].scores

\* C8: the region of every header that has a record in the list returned is exactly its element
\* siblings after it and before the next sibling H2, in document order
C8_RegionIsSiblingsUpToNextH2 ==
    pc = "open_ent" => \A j \in 1..Len(subcats) :
        LET h == NamedHeaders(catPage)[j]
        IN  RegionNodes(catPage, h) = Ordered(SiblingsBetween(catPage, h))

\* C8's cases: a processed header whose region is closed by a sibling H2 and
\* holds an element with a descendant, which is no member of the region; and a
\* processed header whose next sibling is an H2, with an empty region
C8_Witness ==
    /\ pc = "open_ent"
    /\ \E j \in 1..Len(subcats) :
          LET h == NamedHeaders(catPage)[j]
              r == RegionNodes(catPage, h)
          IN  /\ Len(r) = 1
              /\ ChildrenOf(catPage, r[1]) # {}
              /\ \E t \in 1..Len(catPage) :
                    t > r[1] /\ catPage[t].parent = catPage[h].parent /\ catPage[t].tag = "H2"

C8_WitnessAdjacent ==
    pc = "open_ent" /\ \E j \in 1..Len(subcats) :
        LET h == NamedHeaders(catPage)[j]
        IN  /\ NextElementSibling(catPage, h) # NullEl
            /\ catPage[NextElementSibling(catPage, h)].tag = "H2"
            /\ RegionNodes(catPage, h) = <<>>

-----------------------------------------------------------------------------
(* Properties of build_dataset, checked under Spec *)

\* C1: a failure to load a page of one category does not end the run: the run
\* is never aborted while it processes a category
C1_CategoryFailureIsCaught ==
    pc = "aborted" => k \notin 1..Len(CATEGORIES)

\* C3: when build_dataset returns, the output holds one record per entry of
\* CATEGORIES, the i-th with the display title of the i-th entry
C3_OneRecordPerCategoryInOrder ==
    pc = "done" =>
        /\ Len(out) = Len(CATEGORIES)
        /\ \A i \in 1..Len(CATEGORIES) : out[i].category = CATEGORIES[i][2]

\* C3's case: a finished run, with a category that has subcategories and one
\* that has none
C3_Witness ==
    /\ pc = "done"
    /\ Len(out) = Len(CATEGORIES)
    /\ \E i, j \in 1..Len(out) :
          out[i].subcategories = <<>> /\ out[j].subcategories # <<>>

-----------------------------------------------------------------------------
(* Properties of scrape_subcategory_rubrics and of the assembler, checked    *)
(* under SpecRubric                                                          *)

\* the category record has been appended
Assembled == pc = "open_cat" /\ Len(out) = 1

\* C2: the record of every subcategory carries the weight and the scores the
\* category page gave, whatever the rubric extraction did; its description and
\* description_html are the rubric stored under its name, and both are null
\* when none was stored or when its heading was not found
C2_JoinByName ==
    Assembled =>
        /\ Len(out[1].subcategories) = Len(subcats)
        /\ \A j \in 1..Len(subcats) :
              LET rec == out[1].subcategories[j]
                  sc  == subcats[j]
              IN  /\ rec.name = sc.name
                  /\ rec.weight = sc.weight
                  /\ rec.scores = sc.scores
                  /\ sc.name \in DOMAIN rubrics =>
                        /\ rec.description = rubrics[sc.name].description
                        /\ rec.description_html = rubrics[sc.name].description_html
                  /\ sc.name \notin DOMAIN rubrics =>
                        rec.description = None /\ rec.description_html = None
                  /\ ResolveHeader(entPage, sc.name) = <<>> =>
                        rec.description = None /\ rec.description_html = None

\* C2's case: "A" with weight 60, its scores and the rubric read at its heading;
\* "B: x", whose heading is not found, with weight 40, its scores and no rubric
C2_Witness ==
    /\ Assembled
    /\ Len(out[1].subcategories) = 2
    /\ LET a == out[1].subcategories[1]
           b == out[1].subcategories[2]
       IN  /\ a.name = <<"A">> /\ a.weight = Some(60) /\ a.scores["xAI"] = Some(71)
           /\ a.description = Some(<<"desc-1">>)
           /\ a.description_html = Some(<<"<p>", "desc-1", "</p>">>)
           /\ b.name = <<"B", ":", " ", "x">> /\ b.weight = Some(40)
           /\ b.scores["xAI"] = Some(72)
           /\ ResolveHeader(entPage, b.name) = <<>>
           /\ b.description = None /\ b.description_html = None

\* C9: when the control found after the resolved heading is EXPANDED, the
\* rubric stored after click_near_toggle is the rubric a read without the
\* click stores
C9_ClickOnExpandedKeepsContent ==
    [][ ( /\ pc = "rubrics"
          /\ si <= Len(subcats)
          /\ ResolveHeader(entPage, subcats[si].name) # <<>>
          /\ LET h      == ResolveHeader(entPage, subcats[si].name)[1]
                 toggle == ToggleAfter(entPage, h)
             IN  toggle # NullEl /\ expanded[entPage.els[toggle].ctl] )
        => rubrics'[subcats[si].name] =
              ReadRubric(entPage, expanded,
                         ResolveHeader(entPage, subcats[si].name)[1]) ]_vars

\* the headings of either rank whose text contains the text
HeadingsWith(page, text) ==
    {i \in 1..Len(page.els) :
        page.els[i].kind \in {"h2", "h3"} /\ Contains(page.els[i].text, text)}

\* C10: for a title "P: rest" on a page whose only heading that matches is one
\* heading with the text "P", the step stores under the full title the rubric
\* read at that heading
C10_PrefixFallbackResolves ==
    [][ ( /\ pc = "rubrics"
          /\ si <= Len(subcats)
          /\ \E i \in 1..Len(subcats[si].name) : subcats[si].name[i] = ":"
          /\ HeadingsWith(entPage, subcats[si].name) = {}
          /\ Cardinality(HeadingsWith(entPage, Strip(BeforeColon(subcats[si].name)))) = 1
          /\ \A i \in HeadingsWith(entPage, Strip(BeforeColon(subcats[si].name))) :
                entPage.els[i].text = Strip(BeforeColon(subcats[si].name)) )
        => LET h == Min(HeadingsWith(entPage, Strip(BeforeColon(subcats[si].name))))
           IN  \E lands \in BOOLEAN :
                  rubrics'[subcats[si].name] =
                     ReadRubric(entPage,
                                AfterClick(expanded, entPage, ToggleAfter(entPage, h), lands),
                                h) ]_vars

\* the same with a heading of the disclosure-section rank (h3)
PrefixFallbackResolvesH3 ==
    [][ ( /\ pc = "rubrics"
          /\ si <= Len(subcats)
          /\ \E i \in 1..Len(subcats[si].name) : subcats[si].name[i] = ":"
          /\ HeadingsWith(entPage, subcats[si].name) = {}
          /\ Cardinality(HeadingsWith(entPage, Strip(BeforeColon(subcats[si].name)))) = 1
          /\ \A i \in HeadingsWith(entPage, Strip(BeforeColon(subcats[si].name))) :
                /\ entPage.els[i].text = Strip(BeforeColon(subcats[si].name))
                /\ entPage.els[i].kind = "h3" )
        => LET h == Min(HeadingsWith(entPage, Strip(BeforeColon(subcats[si].name))))
           IN  \E lands \in BOOLEAN :
                  rubrics'[subcats[si].name] =
                     ReadRubric(entPage,
                                AfterClick(expanded, entPage, ToggleAfter(entPage, h), lands),
                                h) ]_vars

\* C11: when the heading of a subcategory is not resolved, or the rubric node
\* after it is missing or not visible once the control was activated, the step
\* stores the markup and text of the first document-wide rubric node, and the
\* absent rubric only when there is no such node
C11_FallbackToGlobalNode ==
    [][ (pc = "rubrics" /\ si <= Len(subcats))
        => LET hs == ResolveHeader(entPage, subcats[si].name)
               r  == IF hs = <<>> THEN NullEl ELSE RubricAfter(entPage, expanded', hs[1])
               g  == GlobalDiv(entPage, expanded')
           IN  (r = NullEl \/ ~IsVisible(entPage, expanded', r))
               => rubrics'[subcats[si].name] =
                     IF g # NullEl THEN Rubric(entPage.els[g]) ELSE NoRubric ]_vars

\* the fallback of C11 after a timeout alone: a heading that was resolved
C11_FallbackAfterTimeout ==
    [][ (pc = "rubrics" /\ si <= Len(subcats)
         /\ ResolveHeader(entPage, subcats[si].name) # <<>>)
        => LET hs == ResolveHeader(entPage, subcats[si].name)
               r  == RubricAfter(entPage, expanded', hs[1])
               g  == GlobalDiv(entPage, expanded')
           IN  (r = NullEl \/ ~IsVisible(entPage, expanded', r))
               => rubrics'[subcats[si].name] =
                     IF g # NullEl THEN Rubric(entPage.els[g]) ELSE NoRubric ]_vars

-----------------------------------------------------------------------------
(* Further properties of build_dataset, checked under Spec *)

\* C13: no timeout of a wait ends the run: a navigation that times out does
\* not leave build_dataset as an error
C13_NoTimeoutAbortsRun == pc # "aborted"

\* C14: a step never changes or removes a record that the accumulator already
\* holds
C14_AppendedRecordsAreFrozen ==
    [][ /\ Len(out') >= Len(out)
        /\ \A i \in 1..Len(out) : out'[i] = out[i] ]_vars

\* C14's case: the first record holds a subcategory whose rubric is absent, and
\* a later category, processed since, read a rubric for a subcategory of the
\* same name
C14_Witness ==
    /\ Len(out) >= 2
    /\ \E i \in 1..Len(out[1].subcategories) : \E j \in 1..Len(out[2].subcategories) :
          /\ out[1].subcategories[i].name = out[2].subcategories[j].name
          /\ out[1].subcategories[i].description = None
          /\ out[1].subcategories[i].description_html = None
          /\ out[2].subcategories[j].description # None

-----------------------------------------------------------------------------
(* Further properties of parse_category_page, checked under SpecParse *)

\* the elements of h's region: its siblings up to the next H2 and their descendants
InRegion(page, h) ==
    {a \in 1..Len(page) : \E s \in SiblingsBetween(page, h) : InSubtree(page, a, s)}

\* the value of the first percentage of a text that holds one
FirstPercent(text) ==
    PercentValueAt(text, Min({i \in 1..Len(text) : PercentAt(text, i)}))

\* tier 1 of the cascade applies: the region's text holds the entity's display
\* label immediately followed by a percentage
LabelPair(text, company) ==
    \E i \in 1..Len(text) :
        /\ text[i] = company
        /\ SkipSpaces(text, i + 1) <= Len(text)
        /\ PercentAt(text, SkipSpaces(text, i + 1))

\* C15: the tiers in their order.  When the label pair is absent and every link
\* of the entity in the region holds a percentage in its own content, the score
\* is the first percentage of a link's content, whatever the container around
\* the link or its siblings hold
C15_LinkContentBeforeContainer ==
    \A j \in 1..Len(subcats) :
        LET h    == NamedHeaders(catPage)[j]
            text == RegionText(catPage, h)
        IN  \A c \in DOMAIN COMPANY_SLUG :
              LET links == {a \in InRegion(catPage, h) :
                              AnchorMatches(catPage[a], COMPANY_SLUG[c], CATEGORIES[k][1])}
              IN  ( /\ links # {}
                    /\ ~LabelPair(text, c)
                    /\ \A a \in links : \E i \in 1..Len(TextContent(catPage, a)) :
                          PercentAt(TextContent(catPage, a), i) )
                  => \E a \in links :
                        subcats[j].scores[c] = Some(FirstPercent(TextContent(catPage, a)))

\* C16: the node whose text is scanned as the container of a link is a node
\* with a card hint in its class name, or the link itself; never an ancestor
\* without a card hint at which the climb merely ran out of levels
C16_ContainerIsCardOrLink ==
    \A j \in 1..Len(subcats) :
        LET h      == NamedHeaders(catPage)[j]
            region == RegionNodes(catPage, h)
        IN  \A c \in DOMAIN COMPANY_SLUG :
              \A a \in {x \in CloneNodes(catPage, region) :
                          AnchorMatches(catPage[x], COMPANY_SLUG[c], CATEGORIES[k][1])} :
                 LET container == Container(catPage, region, a)
                 IN  isCardish(catPage, container) \/ container = a

\* the value of the first weight phrase of a text that holds one
FirstWeighted(t) ==
    LET i == Min({x \in 1..Len(t) : WeightedAt(t, x)})
    IN  PercentValueAt(t, SkipSpaces(t, i + 1))

\* the element siblings after h, and those within the lookahead budget
SiblingsAfter(page, h) == {s \in (h + 1)..Len(page) : page[s].parent = page[h].parent}

WithinLookahead(page, h) ==
    {s \in SiblingsAfter(page, h) :
        Cardinality({t \in SiblingsAfter(page, h) : t < s}) < WeightLookahead}

\* the siblings after h whose text holds the weight phrase
HoldsPhrase(page, s) ==
    \E i \in 1..Len(Strip(InnerText(page, s))) : WeightedAt(Strip(InnerText(page, s)), i)

C17_WitnessLast ==
    pc = "open_ent" /\ \E j \in 1..Len(subcats) :
        LET h == NamedHeaders(catPage)[j]
        IN  /\ subcats[j].weight = Some(150)
            /\ \E s \in SiblingsAfter(catPage, h) :
                  /\ HoldsPhrase(catPage, s)
                  /\ Cardinality({t \in SiblingsAfter(catPage, h) : t < s}) = WeightLookahead - 1
                  /\ \A t \in SiblingsAfter(catPage, h) : t < s => ~HoldsPhrase(catPage, t)

-----------------------------------------------------------------------------
(* Further properties of scrape_subcategory_rubrics, checked under SpecRubric *)

\* the heading h has a disclosure control of its own: one that follows it
\* before the next heading
OwnToggle(page, h) ==
    \E i \in (h + 1)..Len(page.els) :
        /\ page.els[i].kind = "toggle"
        /\ \A t \in (h + 1)..i : page.els[t].kind \notin {"h2", "h3"}

\* what the step appends to the trace
NewTrace == SubSeq(trace', Len(trace) + 1, Len(trace'))

\* C18: when the resolved heading has no control of its own, the step clicks
\* nothing and leaves every control as it is, and goes on to the content read
C18_NoControlNoActivation ==
    [][ ( /\ pc = "rubrics"
          /\ si <= Len(subcats)
          /\ ResolveHeader(entPage, subcats[si].name) # <<>>
          /\ ~OwnToggle(entPage, ResolveHeader(entPage, subcats[si].name)[1]) )
        => /\ expanded' = expanded
           /\ NewTrace = << <<"wait_for", ResolveHeader(entPage, subcats[si].name)[1]>> >> ]_vars

\* C19: when a disclosure-section heading (h3) reads exactly the title, the
\* heading the step reads at is one that reads exactly the title, not one that
\* holds the title inside a longer text
C19_ExactTitleFirst ==
    [][ ( /\ pc = "rubrics"
          /\ si <= Len(subcats)
          /\ \E i \in 1..Len(entPage.els) :
                entPage.els[i].kind = "h3" /\ entPage.els[i].text = subcats[si].name )
        => \E i \in 1..Len(NewTrace) :
              /\ NewTrace[i][1] = "wait_for"
              /\ entPage.els[NewTrace[i][2]].text = subcats[si].name ]_vars

-----------------------------------------------------------------------------
(* Properties of get_category_weights, checked under Spec *)

\* the weight phrases of the title: those that follow an occurrence of it
\* within the window, with no other configured title in between
OwnPhrases(text, title) ==
    {j \in 1..Len(text) :
        /\ PercentWeightAt(text, j)
        /\ \E i \in 1..(j - 1) :
              /\ text[i] = title
              /\ CharLen(text, i + 1, j - 1) <= WeightWindow
              /\ \A t \in (i + 1)..(j - 1) : text[t] \notin CategoryTitles \ {title}}

\* C20: the weight of a configured title is the number of one of its own weight
\* phrases, and null when it has none
C20_WeightIsOwnPhrase ==
    DOMAIN cat_weights = CategoryTitles =>
        \A title \in CategoryTitles :
            IF OwnPhrases(listing, title) = {}
            THEN cat_weights[title] = None
            ELSE \E j \in OwnPhrases(listing, title) :
                    cat_weights[title] = Some(PercentValueAt(listing, j))

-----------------------------------------------------------------------------
(* Properties of the order of the page visits, checked under Spec *)

\* the navigations of a trace, in order
Gotos(t) == SelectSeq(t, LAMBDA e : e[1] = "goto")

\* C21: the listing page is navigated to as the first thing of the run and
\* never again, and a page of the c-th category is navigated to only when the
\* output holds exactly the records of the c - 1 categories before it
C21_ListingOnceThenSequential ==
    [][ \A i \in 1..Len(NewTrace) :
           NewTrace[i][1] = "goto" =>
              IF NewTrace[i][2] = <<"categories">>
              THEN trace = <<>> /\ i = 1
              ELSE /\ Gotos(trace) # <<>>
                   /\ Gotos(trace)[1] = <<"goto", <<"categories">> >>
                   /\ \E c \in 1..Len(CATEGORIES) :
                         /\ NewTrace[i][2] \in { <<"categories", CATEGORIES[c][1]>>,
                                                 <<"cell", "xai", CATEGORIES[c][1]>> }
                         /\ Len(out) = c - 1 ]_vars

\* C21's case: a finished run, with the listing and the two pages of every
\* category visited
C21_Witness ==
    /\ pc = "done"
    /\ Len(Gotos(trace)) = 1 + 2 * Len(CATEGORIES)
    /\ Len(out) = Len(CATEGORIES)

\* the number of entries of the kind
CountOf(t, kind) == Cardinality({i \in 1..Len(t) : t[i][1] = kind})

\* C24: a step navigates to no page that the run has navigated to before, and
\* it attempts a click and a visibility wait only when it processes a
\* subcategory, at most one of each; the next step is for the next subcategory
C24_NoRetries ==
    [][ /\ Len(trace') >= Len(trace)
        /\ SubSeq(trace', 1, Len(trace)) = trace
        /\ \A i \in 1..Len(NewTrace) :
              NewTrace[i][1] = "goto" =>
                 /\ \A j \in 1..Len(trace) : trace[j] # NewTrace[i]
                 /\ \A j \in 1..Len(NewTrace) : NewTrace[j] = NewTrace[i] => j = i
        /\ CountOf(NewTrace, "click") <= (IF pc = "rubrics" /\ si' = si + 1 THEN 1 ELSE 0)
        /\ CountOf(NewTrace, "wait_for") <= (IF pc = "rubrics" /\ si' = si + 1 THEN 1 ELSE 0)
      ]_vars

\* C24's case: a toggle click failed and left a rubric absent, and later a
\* navigation failed: each was tried once
C24_Witness ==
    /\ pc = "aborted"
    /\ Len(out) >= 1
    /\ \E j \in 1..Len(out[1].subcategories) :
          /\ out[1].subcategories[j].description = None
          /\ ResolveHeader(SiteEntPage, out[1].subcategories[j].name) # <<>>
    /\ CountOf(trace, "goto") = 4
    /\ CountOf(trace, "click") = 1
    /\ CountOf(trace, "wait_for") = 1

(* Properties of the two page visits of one category, checked under Spec *)

\* the names of the first n subcategories
NamesOf(scs, n) == {scs[j].name : j \in 1..n}

\* C22 as claimed: the rubric extraction needs no result of the category-page
\* extraction, so the record assembled is the one assembled from a rubric
\* extraction that ran before the category page was parsed (no subcategory known)
C22_VisitsIndependent ==
    pc = "append" =>
       CategoryRecord(CATEGORIES[k][2], cat_weights, subcats, rubrics)
          = CategoryRecord(CATEGORIES[k][2], cat_weights, subcats, <<>>)

\* C22: the rubric extraction runs on the complete result of the category-page
\* extraction and looks up exactly the names of that result, one after another
C22_RubricsFollowCategoryPage ==
    pc \in {"rubrics", "append"} =>
       /\ subcats = parse_category_page(catPage, CATEGORIES[k][1])
       /\ si <= Len(subcats) + 1
       /\ DOMAIN rubrics = NamesOf(subcats, si - 1)
       /\ pc = "append" => si = Len(subcats) + 1

\* C22's case: the rubrics returned hold a description for one name of the
\* category page and the absent rubric for another
C22_Witness ==
    /\ pc = "append"
    /\ \E a, b \in NamesOf(subcats, Len(subcats)) :
          /\ a \in DOMAIN rubrics /\ rubrics[a].description # None
          /\ b \in DOMAIN rubrics /\ rubrics[b] = NoRubric

(* Properties of the page state during scrape_subcategory_rubrics, checked   *)
(* under SpecRubric                                                          *)

OwnRubrics(page, h) ==
    {i \in (h + 1)..Len(page.els) :
        /\ page.els[i].kind = "rubric"
        /\ \A j \in (h + 1)..(i - 1) : page.els[j].kind \notin {"h2", "h3"}}

\* C25: the rubric stored for a subcategory is the content of a rubric node of
\* the section of its resolved heading, never that of another section
C25_RubricIsOwnSection ==
    [][ /\ pc = "rubrics"
        /\ si' = si + 1
        /\ rubrics'[subcats[si].name].description # None
        => \E i \in OwnRubrics(entPage, ResolveHeader(entPage, subcats[si].name)[1]) :
              rubrics'[subcats[si].name] = Rubric(entPage.els[i]) ]_vars

\* the clicks of a trace, in order
Clicks(t) == SelectSeq(t, LAMBDA e : e[1] = "click")

\* C26: no disclosure control is clicked twice in one execution
C26_EachControlClickedOnce ==
    \A i, j \in 1..Len(Clicks(trace)) :
        Clicks(trace)[i][2] = Clicks(trace)[j][2] => i = j

(* Further properties of parse_category_page, checked under SpecParse *)

\* C27: a weight returned is the phrase of an element of the heading's own
\* region; with no phrase in the region the weight is null
C27_WeightFromOwnRegion ==
    pc = "open_ent" => \A j \in 1..Len(subcats) :
        subcats[j].weight # None =>
           \E s \in SiblingsBetween(catPage, NamedHeaders(catPage)[j]) :
              /\ HoldsPhrase(catPage, s)
              /\ subcats[j].weight = Some(FirstWeighted(Strip(InnerText(catPage, s))))

\* the percentages that the text holds: the values of its digit runs followed by %
PercentsOf(text) ==
    {PercentValueAt(text, i) : i \in {x \in 1..Len(text) :
                                        /\ PercentAt(text, x)
                                        /\ (x = 1 \/ ~IsDigit(text[x - 1]))}}

\* every score of the records is a percentage that the heading's region holds
ScoresAreOfRegion ==
    \A j \in 1..Len(subcats) :
        LET own == PercentsOf(RegionText(catPage, NamedHeaders(catPage)[j]))
        IN  \A c \in DOMAIN COMPANY_SLUG :
               subcats[j].scores[c] # None => \E v \in own : subcats[j].scores[c] = Some(v)

\* C28: no step of parse_category_page changes the page, and every score it
\* returns is a percentage held by the region of the record's heading
C28_ScoresReadFromRegionCopy ==
    [][ pc = "headers" =>
           /\ catPage' = catPage
           /\ pc' = "open_ent" => ScoresAreOfRegion ]_vars

\* C28's case: a record with a score of 0 from its region, on a page that holds
\* the percentage 150 outside the region
C28_Witness ==
    pc = "open_ent" /\ \E j \in 1..Len(subcats) :
        LET h == NamedHeaders(catPage)[j]
        IN  /\ subcats[j].scores["xAI"] = Some(0)
            /\ PercentsOf(RegionText(catPage, h)) = {0}
            /\ \E s \in 1..Len(catPage) :
                  /\ s \notin CloneNodes(catPage, RegionNodes(catPage, h))
                  /\ 150 \in PercentsOf(TextContent(catPage, s))

(* Properties of the records assembled, checked under SpecRubric *)

\* C29: in every subcategory record of the output, description and
\* description_html are both null or both present
C29_DescriptionFieldsAgree ==
    \A i \in 1..Len(out) : \A j \in 1..Len(out[i].subcategories) :
        (out[i].subcategories[j].description = None)
           <=> (out[i].subcategories[j].description_html = None)

\* C29's case: a category record with a rubric that was read and one that is absent
C29_Witness ==
    \E i \in 1..Len(out) : \E a, b \in 1..Len(out[i].subcategories) :
        /\ out[i].subcategories[a].description # None
        /\ out[i].subcategories[a].description_html # None
        /\ out[i].subcategories[b].description = None
        /\ out[i].subcategories[b].description_html = None

(* Properties of the subcategories of a record, checked under Spec *)

\* the last record of a sequence of subcategory records that carries the name
LastNamed(recs, name) ==
    CHOOSE l \in 1..Len(recs) :
        /\ recs[l].name = name
        /\ \A m \in (l + 1)..Len(recs) : recs[m].name # name

\* what a pass for the name stores when it reads the page in the state exp
StoredFor(page, exp, name) ==
    IF ResolveHeader(page, name) = <<>> THEN NoRubric
    ELSE ReadRubric(page, exp, ResolveHeader(page, name)[1])

\* C30: the record appended last has one subcategory per H2 of its category
\* page with a non-empty trimmed text, in document order and under that text;
\* records of the same name hold the same rubric, the one stored by the last
\* pass for the name (the state of the controls at that pass is the present
\* one when no later pass found a heading)
C30_OneRecordPerNamedHeading ==
    (pc \in {"open_cat", "close"} /\ Len(out) >= 1) =>
       LET recs == out[Len(out)].subcategories
           hs   == NamedHeaders(catPage)
       IN  /\ Len(recs) = Len(hs)
           /\ \A j \in 1..Len(recs) :
                 /\ recs[j].name = Strip(InnerText(catPage, hs[j]))
                 /\ recs[j].name # <<>>
                 /\ LET l == LastNamed(recs, recs[j].name)
                    IN  /\ recs[j].description = recs[l].description
                        /\ recs[j].description_html = recs[l].description_html
                        /\ (\A m \in (l + 1)..Len(recs) :
                               ResolveHeader(entPage, recs[m].name) = <<>>)
                           => /\ recs[j].description
                                    = StoredFor(entPage, expanded, recs[j].name).description
                              /\ recs[j].description_html
                                    = StoredFor(entPage, expanded, recs[j].name).description_html

\* C30's case: a page with a blank heading between two headings of one name;
\* the first pass read the rubric, the second collapsed it again, and both
\* records hold the absent rubric stored last
C30_Witness ==
    /\ pc = "open_cat"
    /\ Len(out) = 1
    /\ Len(Headers(catPage)) = 3
    /\ Len(out[1].subcategories) = 2
    /\ out[1].subcategories[1].name = out[1].subcategories[2].name
    /\ Clicks(trace) = << <<"click", 2>>, <<"click", 2>> >>
    /\ ~expanded[1]
    /\ out[1].subcategories[1].description = None
    /\ out[1].subcategories[2].description = None

\* C30's case: the first pass stored the absent rubric, the second read the
\* rubric, and both records hold it
C30_WitnessRead ==
    /\ pc = "open_cat"
    /\ Len(out) = 1
    /\ Len(out[1].subcategories) = 2
    /\ out[1].subcategories[1].name = out[1].subcategories[2].name
    /\ expanded[1]
    /\ out[1].subcategories[1].description = Some(inner_text(SiteEntPage.els[3]))
    /\ out[1].subcategories[2].description = Some(inner_text(SiteEntPage.els[3]))

=============================================================================
